---- MODULE Spec2Model ----
(***************************************************************************)
(* ginit: the workflow orchestrator (main.py), the version-control adapter *)
(* (git_operations.py), the remote hosting client (github_api.py), the     *)
(* license provisioner (licenses.py) and the configuration checks          *)
(* (config.py), modelled as one sequential state machine.  One run is one  *)
(* call of main() or of GitHubAutomation.automate_full_workflow; the       *)
(* directory, the local repository and the hosting provider persist from   *)
(* one run to the next.                                                    *)
(***************************************************************************)
EXTENDS Integers, Sequences, FiniteSets, TLC

VARIABLES
    pc,        \* position of the running call
    runNo,     \* number of runs started so far
    req,       \* the arguments of the current run
    gitAvail,  \* the local git binary during the current run
    fs,        \* the directory: .git, .gitignore, LICENSE, the user's files
    repo,      \* the local repository: index, HEAD, commits, origin, branch
    hub,       \* the hosting provider: repositories of the token's owner
    repoObj,   \* the Repository object create_repository returned
    calls,     \* the operations invoked in the current run, with outcome
    printed,   \* the messages printed in the current run
    effects,   \* the filesystem writes, git commands and API calls of the run
    result,    \* how automate_full_workflow ended in the current run
    exitCode,  \* the exit status of the process (main only)
    start,     \* the persistent state at the start of the current run, whether
               \* the user edited a file since the last run, and whether the
               \* request is the last run's
    prev,      \* the result of the previous run
    unit       \* the last direct call of a single operation, with its
               \* arguments and what it returned (no workflow running)

vars == <<pc, runNo, req, gitAvail, fs, repo, hub, repoObj, calls, printed,
          effects, result, exitCode, start, prev, unit>>

(***************************************************************************)
(* Bounds                                                                  *)
(***************************************************************************)
\* number of runs of the program in one behaviour
MaxRuns == 2

(***************************************************************************)
(* Text: a diagnostic is a sequence of words; "x in s" of Python is the    *)
(* test for a contiguous subsequence.                                      *)
(***************************************************************************)
Contains(needle, hay) ==
    \E i \in 0..(Len(hay) - Len(needle)) :
        \A j \in 1..Len(needle) : hay[i + j] = needle[j]

NothingToCommit == <<"nothing", "to", "commit">>

\* what git 2.x writes for each outcome, and on which stream
CleanTreeStdout == <<"On", "branch", "x", "nothing", "to", "commit", "working", "tree", "clean">>
IdentityStderr  == <<"Author", "identity", "unknown">>
HookStderr      == <<"pre-commit", "hook", "failed">>
FatalStderr     == <<"fatal", "error">>
NoRemoteStderr  == <<"error", "No", "such", "remote", "origin">>
RemoteExistsStderr == <<"error", "remote", "origin", "already", "exists">>
NotARepoStderr  == <<"fatal", "not", "a", "git", "repository">>
Empty == << >>


(***************************************************************************)
(* Inputs                                                                  *)
(***************************************************************************)
None == "PyNone"                       \* Python's None
Token == "tok"
Names == {"proj", "alt"}               \* repository names a run may ask for
FolderKinds == {"missing", "file", "dir"}
\* LicenseTemplates.AVAILABLE_LICENSES: the keys of the catalog
AVAILABLE_LICENSES ==
    {"MIT", "Apache-2.0", "GPL-3.0", "BSD-3-Clause", "BSD-2-Clause", "ISC", "Unlicense", "None"}
\* the keys the runs of the workflow choose among: a license and no license
MenuKeys == {"MIT", "None"}
\* what a caller of automate_full_workflow may pass as license_key
LicenseKeys == MenuKeys \cup {None, "Bogus"}
Authors == {None, "Jane"}
ThisYear == "2024"                     \* datetime.now().year
UserTexts == {0, 1}                    \* the contents the user's own files take
NoOrigin == << >>                      \* no remote named origin
NoContent == << >>                     \* get_license_content returned None
Absent == <<"absent">>                 \* the file does not exist
UserText == <<"user">>                 \* a file the user wrote
\* the index of a fresh repository, and HEAD before the first commit
EmptyTree == [gitignore |-> "absent", license |-> Absent, user |-> -1]

(***************************************************************************)
(* config.py                                                               *)
(***************************************************************************)
\* a validation that lets a missing token through
validate_github_token_lenient(token) == [exit |-> -1, out |-> << >>]

\* Config.validate_github_token: exit 1 is sys.exit(1); os.getenv gives None
\* for an unset variable and "" for an empty one
validate_github_token(token) ==
    IF token = None \/ token = ""
    THEN [exit |-> 1, out |-> <<"GITHUB_TOKEN not found">>]
    ELSE [exit |-> -1, out |-> << >>]
\* a validation that forgets the is_dir() test
validate_folder_path_exists_only(kind) ==
    IF kind = "missing" THEN [raised |-> "ValueError", out |-> "does not exist"]
    ELSE [raised |-> "none", out |-> ""]

\* Config.validate_folder_path on a path of the given kind
validate_folder_path(kind) ==
    IF kind = "missing" THEN [raised |-> "ValueError", out |-> "does not exist"]
    ELSE IF kind # "dir" THEN [raised |-> "ValueError", out |-> "is not a directory"]
    ELSE [raised |-> "none", out |-> ""]

(***************************************************************************)
(* The local git binary, as subprocess.run sees it.  An outcome is either  *)
(* "the executable was not found" or an exit status with the two streams.  *)
(* cause names why the command ended as it did.                            *)
(***************************************************************************)
NotFound == [kind |-> "notfound", rc |-> -1, stdout |-> Empty, stderr |-> Empty, cause |-> "not_found"]
Exit(rc, out, err, cause) ==
    [kind |-> "exit", rc |-> rc, stdout |-> out, stderr |-> err, cause |-> cause]
Ok == Exit(0, <<"ok">>, Empty, "ok")
Fatal == Exit(128, Empty, FatalStderr, "tool_failure")
\* the causes that lie in the environment, not in the request or the repository
FaultCauses == {"not_found", "tool_failure", "identity", "hook",
                "auth", "rate_limit", "validation", "network"}

GitOutcomes(cmd, avail, f, r) ==
    IF avail = "absent" THEN {NotFound}
    ELSE IF avail = "broken" THEN {Exit(1, Empty, FatalStderr, "tool_failure")}
    ELSE CASE cmd = "version" -> {Ok}
           [] cmd = "init" -> {Ok, Fatal}
           [] cmd = "add" ->
                IF ~f.gitDir THEN {Exit(128, Empty, NotARepoStderr, "not_a_repo")}
                ELSE {Ok, Fatal}
           [] cmd = "commit" ->
                IF ~f.gitDir THEN {Exit(128, Empty, NotARepoStderr, "not_a_repo")}
                ELSE {Exit(128, Empty, IdentityStderr, "identity")} \cup
                     (IF r.index = r.head
                      THEN {Exit(1, CleanTreeStdout, Empty, "nothing_to_commit")}
                      ELSE {Ok, Exit(1, Empty, HookStderr, "hook")})
           [] cmd = "remote_remove" ->
                IF r.origin = NoOrigin THEN {Exit(2, Empty, NoRemoteStderr, "no_such_remote")}
                ELSE {Ok, Fatal}
           [] cmd = "remote_add" ->
                IF r.origin # NoOrigin THEN {Exit(3, Empty, RemoteExistsStderr, "remote_exists")}
                ELSE {Ok, Fatal}
           [] cmd = "branch" -> {Ok, Fatal}
           [] cmd = "push" -> {Ok, Fatal}

\* the files git add . sees
WorkTree(f) == [gitignore |-> f.gitignore, license |-> f.license, user |-> f.user]

(***************************************************************************)
(* git_operations.py                                                       *)
(***************************************************************************)
\* GitOperations.run_command: only CalledProcessError is caught
run_command(o) ==
    IF o.kind = "notfound"
    THEN [raised |-> "FileNotFoundError", success |-> FALSE, output |-> Empty]
    ELSE IF o.rc = 0
    THEN [raised |-> "none", success |-> TRUE, output |-> o.stdout]
    ELSE [raised |-> "none", success |-> FALSE, output |-> o.stderr]

Ret(raised, ret, out) == [raised |-> raised, ret |-> ret, out |-> out]

\* a step that returns False without a word
ReportedSilently(o, failure, success) ==
    LET r == run_command(o) IN
    IF r.raised # "none" THEN Ret(r.raised, FALSE, << >>)
    ELSE IF ~r.success THEN Ret("none", FALSE, << >>)
    ELSE Ret("none", TRUE, success)

\* the pattern shared by init_repo, add_all_files, add_remote, rename_branch, push
Reported(o, failure, success) ==
    LET r == run_command(o) IN
    IF r.raised # "none" THEN Ret(r.raised, FALSE, << >>)
    ELSE IF ~r.success THEN Ret("none", FALSE, <<failure>>)
    ELSE Ret("none", TRUE, success)
\* a check that swallows the failure
check_git_installed_lenient(o) == Ret("none", TRUE, << >>)

check_git_installed(o) ==
    LET r == run_command(o) IN
    IF r.raised # "none" THEN Ret(r.raised, FALSE, << >>)
    ELSE IF ~r.success THEN Ret("RuntimeError", FALSE, << >>)
    ELSE Ret("none", TRUE, << >>)

is_git_repo(f) == f.gitDir

init_repo(o) == Reported(o, "Failed to initialize git", <<"Initialized git repository">>)

\* a create_gitignore that writes without looking
create_gitignore_overwrite(content) == "default"

\* the content create_gitignore leaves behind
create_gitignore(content) == IF content = "absent" THEN "default" ELSE content

add_all_files(o) == Reported(o, "Failed to add files", << >>)
\* a commit that reports every failure as success
commit_always_true(o) ==
    IF run_command(o).raised # "none" THEN Ret(run_command(o).raised, FALSE, << >>)
    ELSE Ret("none", TRUE, << >>)

commit(o) ==
    LET r == run_command(o) IN
    IF r.raised # "none" THEN Ret(r.raised, FALSE, << >>)
    ELSE IF ~r.success
    THEN IF Contains(NothingToCommit, r.output)
         THEN Ret("none", TRUE, << >>)
         ELSE Ret("none", FALSE, <<"Failed to commit">>)
    ELSE Ret("none", TRUE, <<"Created initial commit">>)

\* git remote remove origin (o1), whose result is dropped, then git remote
\* add origin (o2)
add_remote(o1, o2) ==
    IF run_command(o1).raised # "none"
    THEN Ret(run_command(o1).raised, FALSE, << >>)
    ELSE Reported(o2, "Failed to add remote", << >>)

\* an add_remote that never removes the old remote
AfterRemoveSkipped(r, o1) == r

\* the repository after git remote remove origin ended as o1
AfterRemove(r, o1) ==
    IF o1.kind = "exit" /\ o1.rc = 0 THEN [r EXCEPT !.origin = NoOrigin] ELSE r

\* the repository after git remote add origin repo_url ended as o2
AfterAdd(r, repo_url, o2) ==
    IF o2.kind = "exit" /\ o2.rc = 0 THEN [r EXCEPT !.origin = repo_url] ELSE r

\* why add_remote ended as it did: the failed removal explains the failed add
AddRemoteCause(o1, o2) ==
    IF o1.cause \in FaultCauses /\ o2.cause = "remote_exists" THEN o1.cause ELSE o2.cause

rename_branch(o) == Reported(o, "Failed to rename branch", << >>)

push(o) == Reported(o, "Failed to push", <<"Pushed to GitHub">>)

(***************************************************************************)
(* licenses.py                                                             *)
(***************************************************************************)
\* the templates of the licenses dictionary, rendered with a year and an
\* author: the Unlicense has no copyright line
license_text(license_key, y, a) ==
    CASE license_key = "MIT" -> <<"MIT License", "Copyright (c)", y, a>>
      [] license_key = "Apache-2.0" -> <<"Apache License", "Copyright", y, a>>
      [] license_key = "GPL-3.0" -> <<"GNU GENERAL PUBLIC LICENSE", "Copyright (C)", y, a>>
      [] license_key = "BSD-3-Clause" -> <<"BSD 3-Clause License", "Copyright (c)", y, ",", a>>
      [] license_key = "BSD-2-Clause" -> <<"BSD 2-Clause License", "Copyright (c)", y, ",", a>>
      [] license_key = "ISC" -> <<"ISC License", "Copyright (c)", y, ",", a>>
      [] license_key = "Unlicense" -> <<"This is free and unencumbered software">>
      [] OTHER -> NoContent

\* a provisioner that falls back to MIT for a key it does not know
get_license_content_fallback(license_key, author_name, year) ==
    license_text(IF license_key \in AVAILABLE_LICENSES \ {"None"} THEN license_key ELSE "MIT",
                 IF year = None THEN ThisYear ELSE year,
                 IF author_name = None THEN "[Your Name]" ELSE author_name)

\* a provisioner that always renders the placeholder for the author
get_license_content_no_author(license_key, author_name, year) ==
    license_text(license_key, IF year = None THEN ThisYear ELSE year, "[Your Name]")

\* a provisioner that always renders the current year
get_license_content_this_year(license_key, author_name, year) ==
    license_text(license_key, ThisYear,
                 IF author_name = None THEN "[Your Name]" ELSE author_name)

\* LicenseTemplates.get_license_content: the text as a sequence of pieces
get_license_content(license_key, author_name, year) ==
    license_text(license_key,
                 IF year = None THEN ThisYear ELSE year,
                 IF author_name = None THEN "[Your Name]" ELSE author_name)

\* a create_license_file that writes over an existing LICENSE
create_license_file_overwrite(onDisk, license_key, author_name, year) ==
    LET content == get_license_content(license_key, author_name, year) IN
    IF license_key = "None" THEN [ret |-> TRUE, out |-> << >>, file |-> onDisk]
    ELSE IF content = NoContent
    THEN [ret |-> FALSE, out |-> <<"Warning: License not found">>, file |-> onDisk]
    ELSE [ret |-> TRUE, out |-> <<"Created LICENSE">>, file |-> content]

\* a create_license_file without the early return for 'None'
create_license_file_no_skip(onDisk, license_key, author_name, year) ==
    LET content == get_license_content(license_key, author_name, year) IN
    IF content = NoContent
    THEN [ret |-> FALSE, out |-> <<"Warning: License not found">>, file |-> onDisk]
    ELSE IF onDisk # Absent THEN [ret |-> TRUE, out |-> << >>, file |-> onDisk]
    ELSE [ret |-> TRUE, out |-> <<"Created LICENSE">>, file |-> content]

\* LicenseTemplates.create_license_file: ret, what is printed, and the
\* content of LICENSE afterwards, given its content before
create_license_file(onDisk, license_key, author_name, year) ==
    LET content == get_license_content(license_key, author_name, year) IN
    IF license_key = "None" THEN [ret |-> TRUE, out |-> << >>, file |-> onDisk]
    ELSE IF content = NoContent
    THEN [ret |-> FALSE, out |-> <<"Warning: License not found">>, file |-> onDisk]
    ELSE IF onDisk # Absent THEN [ret |-> TRUE, out |-> << >>, file |-> onDisk]
    ELSE [ret |-> TRUE, out |-> <<"Created LICENSE">>, file |-> content]

(***************************************************************************)
(* github_api.py                                                           *)
(***************************************************************************)
\* the status create_repository tests for
StatusUnprocessable == 422

\* github_license_map.get(license_key), or None
github_license_template(license_key) ==
    IF license_key = None \/ license_key = "None" THEN None
    ELSE CASE license_key = "MIT" -> "mit"
           [] license_key = "Apache-2.0" -> "apache-2.0"
           [] license_key = "GPL-3.0" -> "gpl-3.0"
           [] license_key = "BSD-3-Clause" -> "bsd-3-clause"
           [] license_key = "BSD-2-Clause" -> "bsd-2-clause"
           [] license_key = "ISC" -> "isc"
           [] license_key = "Unlicense" -> "unlicense"
           [] OTHER -> None

\* create_repo is called with auto_init=False
AutoInit == FALSE

\* whether the provider makes a first commit of its own in the new
\* repository: it does for auto_init (a README) and for a license template
\* (the LICENSE file), each on its own
provider_initializes(auto_init, license_template) ==
    auto_init \/ license_template # None

NoRepo == [name |-> "", clone_url |-> << >>, html_url |-> << >>]
Repository(name) ==
    [name |-> name,
     clone_url |-> <<"https://", "github.com/owner/", name, ".git">>,
     html_url |-> <<"https://", "github.com/owner/", name>>]

\* what user.create_repo can do: return the repository, raise a
\* GithubException with the provider's status, or raise something else
Created == [kind |-> "created", status |-> 201, cause |-> "ok"]
GithubException(status, cause) == [kind |-> "GithubException", status |-> status, cause |-> cause]
OtherException == [kind |-> "OtherException", status |-> 0, cause |-> "network"]

CreateOutcomes(name, h) ==
    {GithubException(401, "auth"), GithubException(403, "rate_limit"),
     GithubException(422, "validation"), OtherException}
    \cup (IF h[name].exists THEN {GithubException(422, "name_exists")} ELSE {Created})

\* GitHubAPI.create_repository: only GithubException is caught
create_repository(o, repo_name) ==
    IF o.kind = "created"
    THEN [raised |-> "none", repo |-> Repository(repo_name), out |-> <<"Created repository">>]
    ELSE IF o.kind = "GithubException"
    THEN IF o.status = StatusUnprocessable
         THEN [raised |-> "none", repo |-> NoRepo, out |-> <<"already exists">>]
         ELSE [raised |-> "none", repo |-> NoRepo, out |-> <<"Failed to create repository", o.cause>>]
    ELSE [raised |-> "ConnectionError", repo |-> NoRepo, out |-> << >>]

\* str.replace on a sequence of pieces
RECURSIVE Replace(_, _, _)
Replace(s, old, new) ==
    IF s = << >> THEN << >>
    ELSE (IF Head(s) = old THEN new ELSE <<Head(s)>>) \o Replace(Tail(s), old, new)

\* a URL without the token
get_authenticated_repo_url_plain(clone_url, github_token) == clone_url

get_authenticated_repo_url(clone_url, github_token) ==
    Replace(clone_url, "https://", <<"https://", github_token, "@">>)

(***************************************************************************)
(* main.py: the state machine                                              *)
(***************************************************************************)
\* the names the token's owner has already used on the provider
Taken == {"alt"}
NoHubRepo == [exists |-> FALSE, template |-> None, initialized |-> FALSE,
              pushed |-> FALSE, made |-> 0]

\* no direct call has been made
NoUnit == [op |-> "none", key |-> None, author |-> None, year |-> None, url |-> << >>,
           ret |-> FALSE, out |-> << >>, text |-> << >>, cause |-> "none",
           license |-> Absent, origin |-> NoOrigin]

Init ==
    /\ pc = "idle"
    /\ runNo = 0
    /\ req = [entry |-> "api", token |-> Token, folder |-> "dir", name |-> "proj",
              key |-> None, author |-> None]
    /\ gitAvail = "ok"
    /\ \E gi \in {"absent", "user"}, li \in {Absent, UserText} :
          fs = [gitDir |-> FALSE, gitignore |-> gi, license |-> li, user |-> 0]
    /\ repo = [index |-> EmptyTree, head |-> EmptyTree, commits |-> 0,
               origin |-> NoOrigin, branch |-> "master"]
    /\ hub = [n \in Names |->
                 IF n \in Taken THEN [NoHubRepo EXCEPT !.exists = TRUE] ELSE NoHubRepo]
    /\ repoObj = NoRepo
    /\ calls = << >>
    /\ printed = << >>
    /\ effects = {}
    /\ result = "none"
    /\ exitCode = -1
    /\ start = [fs |-> fs, repo |-> repo, hub |-> hub, edited |-> FALSE, same |-> FALSE]
    /\ prev = "none"
    /\ unit = NoUnit

\* Fields that the run never reads are fixed, so that equal runs are one
\* run: without a token main() stops at once, and with an invalid path the
\* name and the license are never looked at.
Relevant(r) ==
    /\ r.key # "MIT" => r.author = None
    /\ r.token \in {None, ""} => r.folder = "dir"
    /\ (r.token \in {None, ""} \/ r.folder # "dir") => (r.name = "proj" /\ r.key = "None")

\* the last operation a run invoked
LastOp(cs) == IF cs = << >> THEN "none" ELSE cs[Len(cs)].op

\* the requests main() can build: get_license_preference offers the catalog
\* and asks for an author only with a license
MainRequests ==
    {r \in [entry : {"main"}, token : {None, "", Token}, folder : FolderKinds,
            name : Names, key : MenuKeys, author : Authors] : Relevant(r)}
\* the requests a caller of automate_full_workflow can make
ApiRequests ==
    {r \in [entry : {"api"}, token : {Token}, folder : FolderKinds,
            name : Names, key : LicenseKeys, author : Authors] : Relevant(r)}

\* a run starts: the process is launched, or automate_full_workflow is
\* called; the user may have edited the directory since the last run
StartRun ==
    /\ pc \in {"idle", "done"}
    /\ runNo < MaxRuns
    /\ \E r \in MainRequests \cup ApiRequests,
          avail \in {"ok", "broken", "absent"},
          edited \in UserTexts :
          /\ avail # "ok" => (r.token = Token /\ r.folder = "dir" /\ r.name = "proj"
                                /\ r.key = "None")
          /\ req' = r
          /\ gitAvail' = avail
          /\ fs' = [fs EXCEPT !.user = edited]
          /\ pc' = IF r.entry = "main" THEN "main_token" ELSE "wf_validate"
    /\ runNo' = runNo + 1
    /\ start' = [fs |-> fs', repo |-> repo, hub |-> hub, edited |-> (fs'.user # fs.user),
                 same |-> (runNo > 0 /\ req' = req /\ gitAvail' = gitAvail)]
    /\ prev' = result
    /\ repoObj' = NoRepo
    /\ calls' = << >>
    /\ printed' = << >>
    /\ effects' = {}
    /\ result' = "none"
    /\ exitCode' = -1
    /\ UNCHANGED <<repo, hub, unit>>

\* where control goes when automate_full_workflow returns or raises
EndPc == IF req.entry = "main" THEN "main_exit" ELSE "done"
\* a workflow that goes on after a step returned False
ProceedsAnyway(r) == r.raised = "none"

\* "if not <step>: return False"
Proceeds(r) == r.raised = "none" /\ r.ret

Call(op, r, cause) ==
    [op |-> op, ok |-> (r.raised = "none" /\ r.ret), raised |-> r.raised, cause |-> cause]

\* bookkeeping shared by the steps whose result the orchestrator tests
Step(op, r, cause, next) ==
    /\ calls' = Append(calls, Call(op, r, cause))
    /\ printed' = printed \o r.out
    /\ IF r.raised # "none" THEN result' = "raised" /\ pc' = EndPc
       ELSE IF ~Proceeds(r) THEN result' = "False" /\ pc' = EndPc
       ELSE result' = result /\ pc' = next

\* main(): Config.validate_github_token
MainToken ==
    /\ pc = "main_token"
    /\ LET v == validate_github_token(req.token) IN
       /\ printed' = printed \o v.out
       /\ IF v.exit = 1 THEN exitCode' = 1 /\ pc' = "done"
          ELSE exitCode' = exitCode /\ pc' = "main_path"
    /\ UNCHANGED <<unit, runNo, req, gitAvail, fs, repo, hub, repoObj, calls, effects,
                   result, start, prev>>

\* main(): the path is validated before the prompts
MainPath ==
    /\ pc = "main_path"
    /\ LET v == validate_folder_path(req.folder) IN
       IF v.raised # "none"
       THEN /\ printed' = Append(printed, "Error")
            /\ exitCode' = 1
            /\ pc' = "done"
       ELSE /\ printed' = printed
            /\ exitCode' = exitCode
            /\ pc' = "wf_validate"
    /\ UNCHANGED <<unit, runNo, req, gitAvail, fs, repo, hub, repoObj, calls, effects,
                   result, start, prev>>

\* automate_full_workflow: validate the folder path
Validate ==
    /\ pc = "wf_validate"
    /\ LET v == validate_folder_path(req.folder)
           r == Ret("none", v.raised = "none", IF v.raised = "none" THEN << >> ELSE <<"Error">>)
       IN Step("validate_folder_path", r, IF r.ret THEN "ok" ELSE "input", "wf_check_git")
    /\ UNCHANGED <<unit, runNo, req, gitAvail, fs, repo, hub, repoObj, effects, exitCode,
                   start, prev>>

\* automate_full_workflow: check_git_installed, whose exception is not caught
CheckGit ==
    /\ pc = "wf_check_git"
    /\ \E o \in GitOutcomes("version", gitAvail, fs, repo) :
          Step("check_git_installed", check_git_installed(o), o.cause, "wf_init")
    /\ effects' = effects \cup {"vcs"}
    /\ UNCHANGED <<unit, runNo, req, gitAvail, fs, repo, hub, repoObj, exitCode, start, prev>>

\* automate_full_workflow: init_repo unless the folder is a repository
InitRepo ==
    /\ pc = "wf_init"
    /\ IF is_git_repo(fs)
       THEN /\ pc' = "wf_gitignore"
            /\ UNCHANGED <<fs, calls, printed, effects, result>>
       ELSE \E o \in GitOutcomes("init", gitAvail, fs, repo) :
               /\ Step("init_repo", init_repo(o), o.cause, "wf_gitignore")
               /\ fs' = IF o.kind = "exit" /\ o.rc = 0 THEN [fs EXCEPT !.gitDir = TRUE] ELSE fs
               /\ effects' = effects \cup {"vcs"} \cup
                     (IF o.kind = "exit" /\ o.rc = 0 THEN {"fs:.git"} ELSE {})
    /\ UNCHANGED <<unit, runNo, req, gitAvail, repo, hub, repoObj, exitCode, start, prev>>

\* automate_full_workflow: create_gitignore
CreateGitignore ==
    /\ pc = "wf_gitignore"
    /\ fs' = [fs EXCEPT !.gitignore = create_gitignore(@)]
    /\ effects' = IF fs'.gitignore # fs.gitignore THEN effects \cup {"fs:.gitignore"} ELSE effects
    /\ calls' = Append(calls, Call("create_gitignore", Ret("none", TRUE, << >>), "ok"))
    /\ pc' = "wf_license"
    /\ UNCHANGED <<unit, runNo, req, gitAvail, repo, hub, repoObj, printed, result, exitCode,
                   start, prev>>

\* "if license_key and license_key != 'None'"
license_requested(license_key) ==
    license_key # None /\ license_key # "" /\ license_key # "None"

\* lines 68-70: create_license_file is called without a year, and only for
\* a requested license; its result is dropped
license_step(onDisk, license_key, license_author) ==
    IF license_requested(license_key)
    THEN LET r == create_license_file(onDisk, license_key, license_author, None)
         IN  [called |-> TRUE, ret |-> r.ret, out |-> r.out, file |-> r.file]
    ELSE [called |-> FALSE, ret |-> TRUE, out |-> << >>, file |-> onDisk]

\* automate_full_workflow: create_license_file, whose result is dropped
CreateLicense ==
    /\ pc = "wf_license"
    /\ IF license_step(fs.license, req.key, req.author).called
       THEN LET r == license_step(fs.license, req.key, req.author) IN
            /\ fs' = [fs EXCEPT !.license = r.file]
            /\ printed' = printed \o r.out
            /\ effects' = IF r.file # fs.license THEN effects \cup {"fs:LICENSE"} ELSE effects
            /\ calls' = Append(calls, Call("create_license_file", Ret("none", r.ret, r.out),
                                           IF r.ret THEN "ok" ELSE "input"))
       ELSE UNCHANGED <<fs, printed, effects, calls>>
    /\ pc' = "wf_add"
    /\ UNCHANGED <<unit, runNo, req, gitAvail, repo, hub, repoObj, result, exitCode, start, prev>>

\* automate_full_workflow: add_all_files
AddAll ==
    /\ pc = "wf_add"
    /\ \E o \in GitOutcomes("add", gitAvail, fs, repo) :
          /\ Step("add_all_files", add_all_files(o), o.cause, "wf_commit")
          /\ repo' = IF o.kind = "exit" /\ o.rc = 0
                     THEN [repo EXCEPT !.index = WorkTree(fs)] ELSE repo
    /\ effects' = effects \cup {"vcs"}
    /\ UNCHANGED <<unit, runNo, req, gitAvail, fs, hub, repoObj, exitCode, start, prev>>

\* automate_full_workflow: commit
Commit ==
    /\ pc = "wf_commit"
    /\ \E o \in GitOutcomes("commit", gitAvail, fs, repo) :
          /\ Step("commit", commit(o), o.cause, "wf_create")
          /\ repo' = IF o.kind = "exit" /\ o.rc = 0
                     THEN [repo EXCEPT !.head = repo.index, !.commits = @ + 1] ELSE repo
    /\ effects' = effects \cup {"vcs"}
    /\ UNCHANGED <<unit, runNo, req, gitAvail, fs, hub, repoObj, exitCode, start, prev>>

\* automate_full_workflow: create_repository; None aborts the run
CreateRepository ==
    /\ pc = "wf_create"
    /\ \E o \in CreateOutcomes(req.name, hub) :
          LET r == create_repository(o, req.name) IN
          /\ Step("create_repository", Ret(r.raised, r.repo # NoRepo, r.out), o.cause,
                  "wf_add_remote")
          /\ repoObj' = r.repo
          /\ hub' = IF o.kind = "created"
                    THEN [hub EXCEPT ![req.name] =
                             [exists |-> TRUE, template |-> github_license_template(req.key),
                              initialized |-> provider_initializes(AutoInit,
                                                 github_license_template(req.key)),
                              pushed |-> FALSE, made |-> @.made + 1]]
                    ELSE hub
    /\ effects' = effects \cup {"net"}
    /\ UNCHANGED <<unit, runNo, req, gitAvail, fs, repo, exitCode, start, prev>>

\* automate_full_workflow: get_authenticated_repo_url and add_remote
AddRemote ==
    /\ pc = "wf_add_remote"
    /\ LET repo_url == get_authenticated_repo_url(repoObj.clone_url, req.token) IN
       \E o1 \in GitOutcomes("remote_remove", gitAvail, fs, repo) :
          \E o2 \in GitOutcomes("remote_add", gitAvail, fs, AfterRemove(repo, o1)) :
             /\ Step("add_remote", add_remote(o1, o2), AddRemoteCause(o1, o2), "wf_rename")
             /\ repo' = AfterAdd(AfterRemove(repo, o1), repo_url, o2)
    /\ effects' = effects \cup {"vcs"}
    /\ UNCHANGED <<unit, runNo, req, gitAvail, fs, hub, repoObj, exitCode, start, prev>>

\* a workflow that reports success after the rename, without pushing
RenameBranchSkipsPush ==
    /\ pc = "wf_rename"
    /\ \E o \in GitOutcomes("branch", gitAvail, fs, repo) :
          /\ Step("rename_branch", rename_branch(o), o.cause, "wf_report")
          /\ repo' = IF o.kind = "exit" /\ o.rc = 0
                     THEN [repo EXCEPT !.branch = "main"] ELSE repo
    /\ effects' = effects \cup {"vcs"}
    /\ UNCHANGED <<unit, runNo, req, gitAvail, fs, hub, repoObj, exitCode, start, prev>>

\* automate_full_workflow: rename_branch(folder_path, 'main')
RenameBranch ==
    /\ pc = "wf_rename"
    /\ \E o \in GitOutcomes("branch", gitAvail, fs, repo) :
          /\ Step("rename_branch", rename_branch(o), o.cause, "wf_push")
          /\ repo' = IF o.kind = "exit" /\ o.rc = 0
                     THEN [repo EXCEPT !.branch = "main"] ELSE repo
    /\ effects' = effects \cup {"vcs"}
    /\ UNCHANGED <<unit, runNo, req, gitAvail, fs, hub, repoObj, exitCode, start, prev>>

\* a push that is tried a second time when it fails
PushRetries ==
    /\ pc = "wf_push"
    /\ \E o \in GitOutcomes("push", gitAvail, fs, repo) :
          /\ calls' = Append(calls, Call("push", push(o), o.cause))
          /\ printed' = printed \o push(o).out
          /\ IF push(o).raised # "none" THEN result' = "raised" /\ pc' = EndPc
             ELSE IF Proceeds(push(o)) THEN result' = result /\ pc' = "wf_report"
             ELSE IF LastOp(calls) # "push" THEN result' = result /\ pc' = "wf_push"
             ELSE result' = "False" /\ pc' = EndPc
          /\ hub' = IF o.kind = "exit" /\ o.rc = 0
                    THEN [hub EXCEPT ![repoObj.name].pushed = TRUE] ELSE hub
    /\ effects' = effects \cup {"vcs", "net"}
    /\ UNCHANGED <<unit, runNo, req, gitAvail, fs, repo, repoObj, exitCode, start, prev>>

\* a push that deletes the remote repository when it fails
PushRollsBack ==
    /\ pc = "wf_push"
    /\ \E o \in GitOutcomes("push", gitAvail, fs, repo) :
          /\ Step("push", push(o), o.cause, "wf_report")
          /\ hub' = IF o.kind = "exit" /\ o.rc = 0
                    THEN [hub EXCEPT ![repoObj.name].pushed = TRUE]
                    ELSE [hub EXCEPT ![repoObj.name] = NoHubRepo]
    /\ effects' = effects \cup {"vcs", "net"}
    /\ UNCHANGED <<unit, runNo, req, gitAvail, fs, repo, repoObj, exitCode, start, prev>>

\* automate_full_workflow: push(folder_path, 'main')
Push ==
    /\ pc = "wf_push"
    /\ \E o \in GitOutcomes("push", gitAvail, fs, repo) :
          /\ Step("push", push(o), o.cause, "wf_report")
          /\ hub' = IF o.kind = "exit" /\ o.rc = 0
                    THEN [hub EXCEPT ![repoObj.name].pushed = TRUE] ELSE hub
    /\ effects' = effects \cup {"vcs", "net"}
    /\ UNCHANGED <<unit, runNo, req, gitAvail, fs, repo, repoObj, exitCode, start, prev>>

\* automate_full_workflow: report the web URL and return True
Report ==
    /\ pc = "wf_report"
    /\ printed' = Append(printed, "Repository created")
    /\ result' = "True"
    /\ pc' = EndPc
    /\ UNCHANGED <<unit, runNo, req, gitAvail, fs, repo, hub, repoObj, calls, effects,
                   exitCode, start, prev>>
\* an exit status that ignores the result
exit_status_zero(success) == 0

\* sys.exit(0 if success else 1)
exit_status(success) == IF success THEN 0 ELSE 1

\* main(): the exit status; except Exception prints and exits with 1
MainExit ==
    /\ pc = "main_exit"
    /\ IF result = "raised"
       THEN /\ printed' = Append(printed, "Error")
            /\ exitCode' = 1
       ELSE /\ printed' = printed
            /\ exitCode' = exit_status(result = "True")
    /\ pc' = "done"
    /\ UNCHANGED <<unit, runNo, req, gitAvail, fs, repo, hub, repoObj, calls, effects,
                   result, start, prev>>

Next ==
    \/ StartRun
    \/ MainToken
    \/ MainPath
    \/ Validate
    \/ CheckGit
    \/ InitRepo
    \/ CreateGitignore
    \/ CreateLicense
    \/ AddAll
    \/ Commit
    \/ CreateRepository
    \/ AddRemote
    \/ RenameBranch
    \/ Push
    \/ Report
    \/ MainExit

Spec == Init /\ [][Next]_vars

\* the steps of a run: every statement of main() and automate_full_workflow
\* returns, so a run that has started goes on until it ends
RunStep ==
    \/ MainToken \/ MainPath \/ Validate \/ CheckGit \/ InitRepo \/ CreateGitignore
    \/ CreateLicense \/ AddAll \/ Commit \/ CreateRepository \/ AddRemote
    \/ RenameBranch \/ Push \/ Report \/ MainExit

LiveSpec == Init /\ [][Next]_vars /\ WF_vars(RunStep)

(***************************************************************************)
(* Direct calls of single operations, as a caller of the modules or a test *)
(* makes them: get_license_content, create_license_file, the license step  *)
(* of the workflow, and add_remote, on a directory that is a repository.   *)
(***************************************************************************)
\* a remote the repository had before
OldUrl == <<"https://", "example.org/old.git">>
Years == {None, "1999"}
UnitKeys == AVAILABLE_LICENSES \cup {"Bogus"}

UnitInit ==
    /\ pc = "unit"
    /\ runNo = 0
    /\ req = [entry |-> "api", token |-> Token, folder |-> "dir", name |-> "proj",
              key |-> None, author |-> None]
    /\ gitAvail = "ok"
    /\ \E li \in {Absent, UserText} :
          fs = [gitDir |-> TRUE, gitignore |-> "default", license |-> li, user |-> 0]
    /\ \E orig \in {NoOrigin, OldUrl} :
          repo = [index |-> EmptyTree, head |-> EmptyTree, commits |-> 0,
                  origin |-> orig, branch |-> "master"]
    /\ hub = [n \in Names |->
                 IF n \in Taken THEN [NoHubRepo EXCEPT !.exists = TRUE] ELSE NoHubRepo]
    /\ repoObj = NoRepo
    /\ calls = << >>
    /\ printed = << >>
    /\ effects = {}
    /\ result = "none"
    /\ exitCode = -1
    /\ start = [fs |-> fs, repo |-> repo, hub |-> hub, edited |-> FALSE, same |-> FALSE]
    /\ prev = "none"
    /\ unit = NoUnit

\* LicenseTemplates.get_license_content(license_key, author_name, year)
UnitGetLicenseContent ==
    /\ pc = "unit"
    /\ \E k \in UnitKeys, a \in Authors, y \in Years :
          unit' = [NoUnit EXCEPT !.op = "get_license_content", !.key = k, !.author = a,
                                 !.year = y, !.text = get_license_content(k, a, y)]
    /\ UNCHANGED <<pc, runNo, req, gitAvail, fs, repo, hub, repoObj, calls, printed,
                   effects, result, exitCode, start, prev>>

\* LicenseTemplates.create_license_file(folder_path, license_key, author_name, year)
UnitCreateLicenseFile ==
    /\ pc = "unit"
    /\ \E k \in UnitKeys, a \in Authors, y \in Years :
          LET r == create_license_file(fs.license, k, a, y) IN
          /\ fs' = [fs EXCEPT !.license = r.file]
          /\ unit' = [NoUnit EXCEPT !.op = "create_license_file", !.key = k, !.author = a,
                                    !.year = y, !.ret = r.ret, !.out = r.out,
                                    !.license = fs.license]
    /\ UNCHANGED <<pc, runNo, req, gitAvail, repo, hub, repoObj, calls, printed,
                   effects, result, exitCode, start, prev>>

\* lines 68-70 of automate_full_workflow, for any license_key a caller passes
UnitLicenseStep ==
    /\ pc = "unit"
    /\ \E k \in UnitKeys \cup {None}, a \in Authors :
          LET r == license_step(fs.license, k, a) IN
          /\ fs' = [fs EXCEPT !.license = r.file]
          /\ unit' = [NoUnit EXCEPT !.op = "license_step", !.key = k, !.author = a,
                                    !.ret = r.ret, !.out = r.out,
                                    !.license = fs.license]
    /\ UNCHANGED <<pc, runNo, req, gitAvail, repo, hub, repoObj, calls, printed,
                   effects, result, exitCode, start, prev>>

\* GitOperations.add_remote(folder_path, repo_url)
UnitAddRemote ==
    /\ pc = "unit"
    /\ \E n \in Names :
          LET repo_url == get_authenticated_repo_url(Repository(n).clone_url, Token) IN
          \E o1 \in GitOutcomes("remote_remove", gitAvail, fs, repo) :
             \E o2 \in GitOutcomes("remote_add", gitAvail, fs, AfterRemove(repo, o1)) :
                /\ repo' = AfterAdd(AfterRemove(repo, o1), repo_url, o2)
                /\ unit' = [NoUnit EXCEPT !.op = "add_remote", !.url = repo_url,
                                          !.ret = Proceeds(add_remote(o1, o2)),
                                          !.out = add_remote(o1, o2).out,
                                          !.cause = AddRemoteCause(o1, o2),
                                          !.origin = repo.origin]
    /\ UNCHANGED <<pc, runNo, req, gitAvail, fs, hub, repoObj, calls, printed,
                   effects, result, exitCode, start, prev>>

UnitNext ==
    \/ UnitGetLicenseContent
    \/ UnitCreateLicenseFile
    \/ UnitLicenseStep
    \/ UnitAddRemote

UnitSpec == UnitInit /\ [][UnitNext]_vars

(***************************************************************************)
(* Properties                                                              *)
(***************************************************************************)
\* the steps whose result automate_full_workflow tests
CheckedSteps == {"validate_folder_path", "check_git_installed", "init_repo", "add_all_files",
                 "commit", "create_repository", "add_remote", "rename_branch", "push"}
\* the operations of the version-control adapter
AdapterOps == {"check_git_installed", "init_repo", "add_all_files", "commit",
               "add_remote", "rename_branch", "push"}
Invoked(op) == \E i \in 1..Len(calls) : calls[i].op = op
Succeeded(op) == \E i \in 1..Len(calls) : calls[i].op = op /\ calls[i].ok
Said(msg) == \E i \in 1..Len(printed) : printed[i] = msg
RunEnded == runNo >= 1 /\ pc = "done"
\* nothing outside the process has changed since the run began
Untouched == fs = start.fs /\ repo = start.repo /\ hub = start.hub
\* no failure of the environment in the run so far
NoFault == gitAvail = "ok" /\ \A i \in 1..Len(calls) : calls[i].cause \notin FaultCauses

C2_NothingToCommitIsSuccess ==
    \A i \in 1..Len(calls) :
        (calls[i].op = "commit" /\ calls[i].cause = "nothing_to_commit")
            => /\ calls[i].ok
               /\ (pc = "wf_create" \/ Invoked("create_repository"))

\* C3: the same request run again right after a run that returned True,
\* with no file edited and no failure of the environment, does not raise,
\* skips init, leaves .gitignore and LICENSE as they were, stages and
\* commits successfully, reaches remote creation, is told "already exists"
\* and returns False there.
C3_RerunAfterSuccess ==
    (RunEnded /\ prev = "True" /\ start.same /\ ~start.edited /\ NoFault)
        => /\ result = "False"
           /\ ~Invoked("init_repo")
           /\ fs.gitignore = start.fs.gitignore /\ fs.license = start.fs.license
           /\ Succeeded("add_all_files") /\ Succeeded("commit")
           /\ LastOp(calls) = "create_repository"
           /\ Said("already exists")

\* C4: main() exits with 0 exactly when stage, commit, remote creation,
\* remote registration, branch rename and push all succeeded; every other
\* end of the process, an exception out of the workflow included, is 1.
C4_ExitCode ==
    (RunEnded /\ req.entry = "main")
        => /\ exitCode \in {0, 1}
           /\ exitCode = 0 <=>
                 \A op \in {"add_all_files", "commit", "create_repository",
                            "add_remote", "rename_branch", "push"} : Succeeded(op)
           /\ result = "raised" => exitCode = 1

\* C4 witness: a process that exited with 0.
C4_Witness == RunEnded /\ req.entry = "main" /\ exitCode = 0 /\ Succeeded("push")

\* C5: the same request run again after a run that aborted, with no failure
\* of the environment in the second run, does not raise, leaves an existing
\* .gitignore and LICENSE as they were, does not run init on an existing
\* repository, creates no second remote repository, and is told "already
\* exists" at remote creation when the remote repository is there.
C5_RerunAfterAbort ==
    (RunEnded /\ prev \in {"False", "raised"} /\ start.same /\ NoFault)
        => /\ result # "raised"
           /\ start.fs.gitignore # "absent" => fs.gitignore = start.fs.gitignore
           /\ start.fs.license # Absent => fs.license = start.fs.license
           /\ start.fs.gitDir => ~Invoked("init_repo")
           /\ start.hub[req.name].exists =>
                 /\ hub[req.name].made = start.hub[req.name].made
                 /\ Said("already exists")

\* C6: when git commit fails for a reason other than "nothing to commit",
\* the commit step fails, the run ends there with False, and the run makes
\* no call of the remote API.
C6_CommitFailureNoRemoteCall ==
    \A i \in 1..Len(calls) :
        (calls[i].op = "commit" /\ calls[i].cause \notin {"ok", "nothing_to_commit"})
            => /\ i = Len(calls)
               /\ ~calls[i].ok
               /\ result = "False"
               /\ "net" \notin effects
               /\ ~Invoked("create_repository")
               /\ hub = start.hub

\* C6 witness: a run that ended at a commit refused for want of an identity.
C6_Witness ==
    /\ RunEnded /\ LastOp(calls) = "commit"
    /\ calls[Len(calls)].cause = "identity" /\ result = "False"

\* C7: with a path that does not exist or is no directory the run fails
\* with a validation error, and writes no file, runs no git command and
\* makes no network call.
C7_InvalidPathNoEffects ==
    (runNo >= 1 /\ req.folder # "dir")
        => /\ effects = {}
           /\ Untouched
           /\ \A i \in 1..Len(calls) : calls[i].op = "validate_folder_path"
           /\ pc = "done" =>
                 /\ Said("Error")
                 /\ IF req.entry = "main" THEN exitCode = 1 ELSE result = "False"

\* C7 witness: automate_full_workflow returned False for a path that is a file.
C7_Witness ==
    /\ RunEnded /\ req.folder = "file" /\ req.entry = "api"
    /\ result = "False" /\ Invoked("validate_folder_path")

\* C8: no operation of the version-control adapter raises, whatever the
\* git invocation does, the missing binary included.
C8_AdapterNeverRaises ==
    \A i \in 1..Len(calls) :
        calls[i].op \in AdapterOps => calls[i].raised = "none"

\* C9: without a usable git the run ends at the check: no init, no
\* .gitignore or LICENSE written, nothing staged or committed, no remote
\* call, and the process exits with 1.
C9_NoGitNoMutation ==
    (runNo >= 1 /\ gitAvail # "ok")
        => /\ \A i \in 1..Len(calls) :
                 calls[i].op \in {"validate_folder_path", "check_git_installed"}
           /\ Untouched
           /\ effects \subseteq {"vcs"}
           /\ pc = "done" =>
                 IF req.entry = "main" THEN exitCode = 1 ELSE result = "raised"

\* C9 witness: the process exited with 1 at the check, git being absent.
C9_Witness ==
    /\ RunEnded /\ gitAvail = "absent" /\ req.entry = "main"
    /\ LastOp(calls) = "check_git_installed" /\ exitCode = 1

\* C10: when the provider refuses the creation, "already exists" is
\* reported exactly when a repository of that name exists, every other
\* refusal is reported with the provider's message, and the run ends.
C10_AlreadyExistsExactly ==
    \A i \in 1..Len(calls) :
        (calls[i].op = "create_repository"
         /\ calls[i].cause \in {"name_exists", "validation", "auth", "rate_limit"})
            => /\ Said("already exists") <=> calls[i].cause = "name_exists"
               /\ calls[i].cause # "name_exists" => Said("Failed to create repository")
               /\ i = Len(calls) /\ result = "False"

\* C11: every failure of the creation call (authentication, rate limit,
\* network) is turned into a failure value: create_repository prints the
\* provider's message and returns None, and the run returns False.
C11_CreationFailureIsValue ==
    \A i \in 1..Len(calls) :
        (calls[i].op = "create_repository"
         /\ calls[i].cause \in {"auth", "rate_limit", "network"})
            => /\ calls[i].raised = "none"
               /\ Said("Failed to create repository")
               /\ result = "False"

\* the URL the run registers as origin
RunUrl == get_authenticated_repo_url(Repository(req.name).clone_url, req.token)

\* C12: when a run has aborted, what its completed steps did is still in
\* place: the .git directory, the ignore-file, the license file, the
\* commit, the remote repository, the origin remote and the branch name.
C12_NoRollback ==
    (RunEnded /\ result \in {"False", "raised"}) =>
        /\ Succeeded("init_repo") => fs.gitDir
        /\ Invoked("create_gitignore") => fs.gitignore # "absent"
        /\ (Invoked("create_license_file") /\ req.key = "MIT") => fs.license # Absent
        /\ (\E i \in 1..Len(calls) : calls[i].op = "commit" /\ calls[i].cause = "ok")
              => (repo.commits = start.repo.commits + 1 /\ repo.head = WorkTree(fs))
        /\ Succeeded("create_repository")
              => /\ hub[req.name].exists
                 /\ hub[req.name].made = start.hub[req.name].made + 1
        /\ Succeeded("add_remote") => repo.origin = RunUrl
        /\ Succeeded("rename_branch") => repo.branch = "main"

\* C12 witness: a run that ended with False at the push: the remote
\* repository exists without content, the commit and the files are there.
C12_Witness ==
    /\ RunEnded /\ result = "False" /\ LastOp(calls) = "push"
    /\ hub[req.name].exists /\ ~hub[req.name].pushed
    /\ repo.commits = start.repo.commits + 1 /\ repo.origin = RunUrl
    /\ fs.gitignore = "default" /\ fs.license # Absent

\* C13: the ignore-file step writes the default content only when there is
\* no ignore-file, and leaves an existing one as it is, in every run.
C13_IgnoreFileKept ==
    runNo >= 1 =>
        /\ fs.gitignore = IF Invoked("create_gitignore") /\ start.fs.gitignore = "absent"
                          THEN "default" ELSE start.fs.gitignore
        /\ "fs:.gitignore" \in effects => start.fs.gitignore = "absent"

\* C13 witness: the step ran on a directory with the user's own ignore-file.
C13_Witness ==
    /\ runNo >= 1 /\ Invoked("create_gitignore")
    /\ start.fs.gitignore = "user" /\ fs.gitignore = "user"

\* C14: with a license chosen, the license file is written only when there
\* is none; an existing one keeps its content, and the step succeeds
\* without a warning and the run goes on.
C14_LicenseKept ==
    (runNo >= 1 /\ req.key = "MIT") =>
        /\ fs.license = IF Invoked("create_license_file") /\ start.fs.license = Absent
                        THEN <<"MIT License", "Copyright (c)", ThisYear,
                               IF req.author = None THEN "[Your Name]" ELSE req.author>>
                        ELSE start.fs.license
        /\ "fs:LICENSE" \in effects => start.fs.license = Absent
        /\ ~Said("Warning: License not found")
        /\ \A i \in 1..Len(calls) :
              calls[i].op = "create_license_file"
                 => /\ calls[i].ok
                    /\ i = Len(calls) => (pc = "wf_add" /\ result = "none")

\* C14 witness: MIT was chosen in a directory with the user's LICENSE, which
\* is still there when the run has gone on to stage the files.
C14_Witness ==
    /\ req.key = "MIT" /\ start.fs.license = UserText /\ fs.license = UserText
    /\ Invoked("create_license_file") /\ Invoked("add_all_files")

\* C15: with an unknown license identifier a warning is printed, no license
\* file is written, and the run goes on as a run without a license does:
\* the step sets no result and the remote is created without a template.
C15_UnknownLicense ==
    (runNo >= 1 /\ req.key = "Bogus") =>
        /\ fs.license = start.fs.license
        /\ "fs:LICENSE" \notin effects
        /\ Invoked("create_license_file") <=> Said("Warning: License not found")
        /\ LastOp(calls) = "create_license_file" => (pc = "wf_add" /\ result = "none")
        /\ Succeeded("create_repository") => hub[req.name].template = None
        /\ pc = "wf_report" => Succeeded("push")

\* C15 witness: a run with an unknown identifier returned True, the warning
\* was printed and the directory has no license file.
C15_Witness ==
    /\ RunEnded /\ req.key = "Bogus" /\ result = "True"
    /\ Said("Warning: License not found") /\ fs.license = Absent

\* C17: without a token the process exits with 1 at the token check: no
\* step of the workflow is called, nothing is written and no request is made.
C17_NoTokenExitsAtOnce ==
    (runNo >= 1 /\ req.entry = "main" /\ req.token \in {None, ""}) =>
        /\ calls = << >> /\ effects = {} /\ Untouched
        /\ pc \in {"main_token", "done"}
        /\ pc = "done" => (exitCode = 1 /\ Said("GITHUB_TOKEN not found"))

\* C17 witness: the process exited with 1, the token being unset.
C17_Witness ==
    /\ RunEnded /\ req.entry = "main" /\ req.token = None /\ exitCode = 1
    /\ Said("GITHUB_TOKEN not found")

C16_NoneIsSilent ==
    (unit.op \in {"create_license_file", "license_step"} /\ unit.key \in {"None", None}) =>
        /\ fs.license = unit.license
        /\ unit.out = << >>
        /\ unit.ret

\* C16 witness: create_license_file was called with 'None' on a directory
\* without a license file, and there is still none.
C16_Witness ==
    /\ unit.op = "create_license_file" /\ unit.key = "None"
    /\ unit.license = Absent /\ fs.license = Absent

\* C18: after add_remote has succeeded, origin is the new URL; it succeeds
\* whenever git does not fail for a reason of its own, whether or not
\* there was an origin before; with the same URL again the repository is
\* as it was after the first call.
C18_ReRegistration ==
    unit.op = "add_remote" =>
        /\ unit.ret => repo.origin = unit.url
        /\ unit.cause \notin FaultCauses => unit.ret
        /\ (unit.ret /\ unit.origin = unit.url) => repo.origin = unit.origin

\* C18 witness: add_remote succeeded with the URL that was already origin.
C18_Witness ==
    /\ unit.op = "add_remote" /\ unit.ret
    /\ unit.origin = unit.url /\ repo.origin = unit.url

\* the year and the author get_license_content was asked to render
UnitYear == IF unit.year = None THEN ThisYear ELSE unit.year
UnitAuthor == IF unit.author = None THEN "[Your Name]" ELSE unit.author

\* C20 as stated: for every identifier of the catalog other than 'None' the
\* text carries the year and the author, a missing author as "[Your Name]";
\* for MIT in the line "Copyright (c) <year> <author>".
C20_AsStated ==
    (unit.op = "get_license_content" /\ unit.key \in AVAILABLE_LICENSES \ {"None"}) =>
        /\ Contains(<<UnitYear>>, unit.text)
        /\ Contains(<<UnitAuthor>>, unit.text)
        /\ unit.key = "MIT" => Contains(<<"Copyright (c)", UnitYear, UnitAuthor>>, unit.text)

\* C20, amended: the same for every identifier of the catalog other than
\* 'None' and 'Unlicense'; the Unlicense text carries neither a year nor
\* an author.
C20_Substitution ==
    unit.op = "get_license_content" =>
        /\ unit.key \in AVAILABLE_LICENSES \ {"None", "Unlicense"} =>
              /\ Contains(<<UnitYear>>, unit.text)
              /\ Contains(<<UnitAuthor>>, unit.text)
              /\ unit.key = "MIT" =>
                    Contains(<<"Copyright (c)", UnitYear, UnitAuthor>>, unit.text)
        /\ unit.key = "Unlicense" =>
              /\ ~Contains(<<UnitYear>>, unit.text)
              /\ ~Contains(<<UnitAuthor>>, unit.text)

\* C20 witness: MIT for Jane and 1999.
C20_Witness ==
    /\ unit.op = "get_license_content" /\ unit.key = "MIT"
    /\ unit.author = "Jane" /\ unit.year = "1999"
    /\ unit.text = <<"MIT License", "Copyright (c)", "1999", "Jane">>

\* the messages the program prints on a failure
Diagnostics == {"GITHUB_TOKEN not found", "Error", "Failed to initialize git",
                "Failed to add files", "Failed to commit", "already exists",
                "Failed to create repository", "Failed to add remote",
                "Failed to rename branch", "Failed to push"}

\* C21: a run that has returned False or exited with a status other than 0
\* has printed a diagnostic message.
C21_FailureIsReported ==
    (RunEnded /\ (result = "False" \/ exitCode = 1)) =>
        \E i \in 1..Len(printed) : printed[i] \in Diagnostics

\* C21 witness: the process exited with 1 after the branch rename failed
\* and said so.
C21_Witness ==
    /\ RunEnded /\ req.entry = "main" /\ exitCode = 1
    /\ LastOp(calls) = "rename_branch" /\ Said("Failed to rename branch")

\* the call before the i-th call of the run is a successful call of op
After(i, op) == i > 1 /\ calls[i - 1].op = op /\ calls[i - 1].ok

\* C22: the last steps come in one order: the remote is created, then the
\* authenticated URL is registered as origin, then the branch is renamed
\* to main, then main is pushed; the web URL is reported and True is
\* returned only after the push has succeeded.
C22_LastStepsInOrder ==
    /\ \A i \in 1..Len(calls) :
          /\ calls[i].op = "add_remote" => After(i, "create_repository")
          /\ calls[i].op = "rename_branch" => After(i, "add_remote")
          /\ calls[i].op = "push" => After(i, "rename_branch")
    /\ Invoked("rename_branch") => repo.origin = RunUrl
    /\ Invoked("push") => repo.branch = "main"
    /\ (result = "True" \/ Said("Repository created") \/ pc = "wf_report")
          => (LastOp(calls) = "push" /\ Succeeded("push") /\ hub[req.name].pushed)
    /\ result = "True" => Said("Repository created")

\* C22 witness: a run returned True after the four steps, main is on the
\* remote.
C22_Witness ==
    /\ RunEnded /\ result = "True" /\ Len(calls) >= 4
    /\ After(Len(calls), "rename_branch") /\ After(Len(calls) - 1, "add_remote")
    /\ After(Len(calls) - 2, "create_repository")
    /\ hub[req.name].pushed /\ repo.branch = "main" /\ repo.origin = RunUrl

\* the steps that must find the license file in place
AfterLicense == {"add_all_files", "commit", "create_repository"}

\* C23, first half: with a license requested, the license file step comes
\* before staging, commit and remote creation.
LicenseStepFirst ==
    \A i \in 1..Len(calls) :
        (calls[i].op \in AfterLicense /\ license_requested(req.key))
            => \E j \in 1..(i - 1) : calls[j].op = "create_license_file"

\* C23: the license file is made before staging, commit and remote
\* creation, and when the push is made the remote repository holds no
\* commit of the provider's, whatever the license choice.
C23_RemoteEmptyAtPush ==
    /\ LicenseStepFirst
    /\ Invoked("push") => ~hub[req.name].initialized

\* no operation is invoked twice in the run, and a tested step that failed
\* is the last one
NoRetry ==
    /\ \A i, j \in 1..Len(calls) : calls[i].op = calls[j].op => i = j
    /\ \A i \in 1..Len(calls) :
          (calls[i].op \in CheckedSteps /\ ~calls[i].ok) => i = Len(calls)
    /\ (pc = "done" /\ calls # << >> /\ ~calls[Len(calls)].ok) => result # "True"

\* C24: every run ends, and within a run no step is invoked a second time:
\* a step that failed is the last step of the run.
C24_TerminatesWithoutRetry ==
    /\ []NoRetry
    /\ (pc \notin {"idle", "done"}) ~> (pc = "done")

\* C24 witness: a run has ended at a push that failed, made once.
C24_Witness ==
    /\ RunEnded /\ result = "False" /\ LastOp(calls) = "push"
    /\ \A i \in 1..(Len(calls) - 1) : calls[i].op # "push"

\* the run was started with a remote repository of the requested name
NameInUse == runNo >= 1 /\ start.hub[req.name].exists

\* C25 as stated: a run that reaches remote creation with the name in use
\* returns False at that step; neither add_remote nor push is invoked, and
\* a run that returned True has created the remote repository itself.
C25_NameInUseFails ==
    /\ (NameInUse /\ Invoked("create_repository"))
          => /\ LastOp(calls) = "create_repository" /\ ~Succeeded("create_repository")
             /\ result = "False"
    /\ result = "True" => ~NameInUse

\* the clone URL of the run's repository with the token after "https://"
TokenUrl == <<"https://", req.token, "@", "github.com/owner/", req.name, ".git">>

\* the token is part of the URL
HoldsToken(url) == \E i \in 1..Len(url) : url[i] = Token

\* C26: the URL registered as origin is the clone URL with the token put
\* after "https://", no later step replaces it, and whenever the
\* repository has an origin, in this run or a later one, the token is in it.
C26_TokenInOrigin ==
    /\ Succeeded("add_remote") => (repo.origin = TokenUrl /\ req.token = Token)
    /\ repo.origin # NoOrigin => HoldsToken(repo.origin)
    /\ (runNo >= 1 /\ start.repo.origin # NoOrigin /\ ~Invoked("add_remote"))
          => repo.origin = start.repo.origin

\* C26 witness: a run has returned True and the token is in the origin URL.
C26_Witness ==
    /\ RunEnded /\ result = "True" /\ repo.origin = TokenUrl
    /\ HoldsToken(repo.origin)
====
